---------------------------- MODULE Spec2Model ----------------------------
(***************************************************************************)
(* Model of                                                                *)
(*   source/blender/functions/intern/node_tree_multi_function_network/     *)
(*     builder.cc   (FunctionTreeMFNetworkBuilder, FNodeMFNetworkBuilder)  *)
(*   source/blender/editors/object/object_remesh.c  (remesh operators)     *)
(*                                                                         *)
(* Sequences are 1-based here: the k-th element of a sequence is the       *)
(* element the code reaches with index k-1.  Socket ids are the code's     *)
(* 0-based ids.                                                            *)
(***************************************************************************)
EXTENDS Integers, Sequences, FiniteSets, TLC

VARIABLES
  \* ---- FunctionTreeMFNetworkBuilder ----
  m_preprocessed_function_tree_data, \* fsocket id -> resolved data type or NoType
  m_builder,             \* the unique_ptr<MFNetworkBuilder>: BuilderAddr or NullPtr
  builder_obj,           \* the MFNetworkBuilder object at BuilderAddr: nodes, sockets
  m_socket_by_fsocket,   \* forward Socket Map: fsocket id -> sequence of socket ids
  result,                \* what build() returned: NoResult or the FunctionTreeMFNetwork
  status,                \* "ok", or "crashed" once undefined behaviour aborted the run
  n_ops,                 \* number of builder calls made so far
  mapped_calls,          \* history: the (graph node, network node) mapping calls made
  last_call,             \* history: the most recent builder call
  oob,                   \* history: a socket list was indexed past its end
  \* ---- FNodeMFNetworkBuilder::get_vectorized_function ----
  rna,                   \* the node's properties: property name -> "BASE" or "LIST"
  resources,             \* functions constructed by construct_fn, in order
  returned_fn,           \* reference returned by the last get_vectorized_function
  vec_args,              \* history: arguments of the last get_vectorized_function
  \* ---- object_remesh.c ----
  remesh                 \* the remesh operator run: context, position and effects

builder_vars == <<m_preprocessed_function_tree_data, m_builder, builder_obj,
                  m_socket_by_fsocket, result, status, n_ops, mapped_calls,
                  last_call, oob>>
vec_vars == <<rna, resources, returned_fn, vec_args>>
vars == <<builder_vars, vec_vars, remesh>>

-----------------------------------------------------------------------------
(* Bounds *)

\* Builder calls (add_function, add_dummy, set_matching_fn, map_data_sockets)
\* made before and after build().
MaxOps == 2

\* Length of the property name list given to get_vectorized_function.
MaxPropNames == 2

\* Functions get_vectorized_function may construct.
MaxResources == 2

\* Runs of the remesh operators.
MaxRuns == 2

-----------------------------------------------------------------------------
(* Generic helpers *)

Range(s) == {s[i] : i \in 1..Len(s)}

Min(a, b) == IF a < b THEN a ELSE b

-----------------------------------------------------------------------------
(* The function tree handed to the builder (read only).                    *)

NoType == "none"

\* Graph nodes N1 and N2.
FNodes == {1, 2}

fnode_name(fnode) == IF fnode = 1 THEN "N1" ELSE "N2"

\* N1: inputs a, b, c; outputs w, x.   N2: input y; output z.
fnode_inputs(fnode) == IF fnode = 1 THEN <<0, 1, 2>> ELSE <<5>>

fnode_outputs(fnode) == IF fnode = 1 THEN <<3, 4>> ELSE <<6>>

fsocket_name(fsocket) == <<"a", "b", "c", "w", "x", "y", "z">>[fsocket + 1]

socket_count == 7

FSocketIds == 0..(socket_count - 1)

\* The classifications a tree of this shape can have: a, c, x carry data, w and
\* z are control sockets, b and y are data sockets in some trees only.
FunctionTreeData ==
  { [f \in FSocketIds |->
       CASE f = 0 -> "float"
         [] f = 1 -> b
         [] f = 2 -> "int"
         [] f = 3 -> NoType
         [] f = 4 -> "float"
         [] f = 5 -> y
         [] f = 6 -> NoType] : b \in {NoType, "int"}, y \in {NoType, "float"} }

\* Socket Classifier.
try_get_data_type(fsocket) == m_preprocessed_function_tree_data[fsocket]

is_data_socket(fsocket) == try_get_data_type(fsocket) # NoType

\* The multi-functions callers pass in: a reference, and the signature's
\* input and output parameter types.
MultiFunctions ==
  { [ref |-> "F1", inputs |-> <<"float", "int">>, outputs |-> <<"float">>],
    [ref |-> "F2", inputs |-> <<"float">>,        outputs |-> <<>>],
    [ref |-> "F3", inputs |-> <<"int">>,          outputs |-> <<"int">>] }

-----------------------------------------------------------------------------
(* MFNetworkBuilder: the node/socket structure under construction.  A node *)
(* is [kind, name, fn, inputs, outputs] with inputs/outputs the socket ids  *)
(* in order; socket id i is sockets[i + 1].                                 *)

NullPtr == "nullptr"
BuilderAddr == "MFNetworkBuilder"
NoResult == [network |-> NullPtr, socket_by_fsocket |-> <<>>, fsocket_by_socket |-> <<>>]
NoFunction == "none"

\* The sentinel of the reverse table: no graph socket maps here.
IdMultiMap_UNMAPPED == -1

Built == result # NoResult

EmptyBuilder == [nodes |-> <<>>, sockets |-> <<>>]

SocketById(obj, id) == obj.sockets[id + 1]

SocketIds(obj) == 0..(Len(obj.sockets) - 1)

\* Appends a node with one socket per given type; ids are handed out in
\* creation order, inputs first.
mf_add_node(obj, kind, name, fn, input_types, output_types, input_names, output_names) ==
  LET node_index == Len(obj.nodes) + 1
      first == Len(obj.sockets)
      n_in == Len(input_types)
      n_out == Len(output_types)
      inputs == [i \in 1..n_in |-> first + i - 1]
      outputs == [i \in 1..n_out |-> first + n_in + i - 1]
      in_sockets == [i \in 1..n_in |->
                       [node |-> node_index, is_input |-> TRUE, index |-> i,
                        data_type |-> input_types[i], name |-> input_names[i]]]
      out_sockets == [i \in 1..n_out |->
                       [node |-> node_index, is_input |-> FALSE, index |-> i,
                        data_type |-> output_types[i], name |-> output_names[i]]]
  IN [nodes |-> Append(obj.nodes,
                       [kind |-> kind, name |-> name, fn |-> fn,
                        inputs |-> inputs, outputs |-> outputs]),
      sockets |-> obj.sockets \o in_sockets \o out_sockets]

\* MFNetworkBuilder::add_function: sockets follow the function's signature.
mf_add_function(obj, function) ==
  mf_add_node(obj, "function", "fn", function.ref,
              function.inputs, function.outputs,
              [i \in 1..Len(function.inputs) |-> "in"],
              [i \in 1..Len(function.outputs) |-> "out"])

\* MFNetworkBuilder::add_dummy.
mf_add_dummy(obj, name, input_types, output_types, input_names, output_names) ==
  mf_add_node(obj, "dummy", name, NoFunction,
              input_types, output_types, input_names, output_names)

-----------------------------------------------------------------------------
(* FunctionTreeMFNetworkBuilder                                            *)

\* map_sockets: m_socket_by_fsocket.add(fsocket.id(), socket.id()).
map_sockets(map, fsocket, socket) ==
  [map EXCEPT ![fsocket] = Append(@, socket)]

\* Faulty variant of map_data_loop: the counter advances on every socket, data or not.
RECURSIVE map_data_loop_counts_all(_, _, _, _, _, _)
map_data_loop_counts_all(fsockets, node_sockets, counter, acc, garbage, abort) ==
  IF fsockets = <<>> \/ acc.aborted THEN acc
  ELSE IF is_data_socket(Head(fsockets))
       THEN IF counter < Len(node_sockets)
            THEN map_data_loop_counts_all(Tail(fsockets), node_sockets, counter + 1,
                   [acc EXCEPT !.map = map_sockets(@, Head(fsockets), node_sockets[counter + 1])],
                   garbage, abort)
            ELSE IF abort
                 THEN [acc EXCEPT !.oob = TRUE, !.aborted = TRUE]
                 ELSE map_data_loop_counts_all(Tail(fsockets), node_sockets, counter + 1,
                        [acc EXCEPT !.oob = TRUE,
                                    !.map = map_sockets(@, Head(fsockets), garbage)],
                        garbage, abort)
       ELSE map_data_loop_counts_all(Tail(fsockets), node_sockets, counter + 1, acc,
                                     garbage, abort)

\* Faulty variant of map_data_loop: a pair replaces the entry instead of extending it.
RECURSIVE map_data_loop_overwrites(_, _, _, _, _, _)
map_data_loop_overwrites(fsockets, node_sockets, counter, acc, garbage, abort) ==
  IF fsockets = <<>> \/ acc.aborted THEN acc
  ELSE IF is_data_socket(Head(fsockets))
       THEN IF counter < Len(node_sockets)
            THEN map_data_loop_overwrites(Tail(fsockets), node_sockets, counter + 1,
                   [acc EXCEPT !.map[Head(fsockets)] = <<node_sockets[counter + 1]>>],
                   garbage, abort)
            ELSE IF abort
                 THEN [acc EXCEPT !.oob = TRUE, !.aborted = TRUE]
                 ELSE map_data_loop_overwrites(Tail(fsockets), node_sockets, counter + 1,
                        [acc EXCEPT !.oob = TRUE,
                                    !.map[Head(fsockets)] = <<garbage>>],
                        garbage, abort)
       ELSE map_data_loop_overwrites(Tail(fsockets), node_sockets, counter, acc,
                                     garbage, abort)

\* One loop of map_data_sockets over fsockets, pairing against node_sockets.
\* counter is the code's data_inputs / data_outputs.  acc carries the map,
\* whether an index past the end was used, and whether that aborted the run.
\* An index past the end of node_sockets is undefined behaviour: the run
\* aborts (abort), or the read goes through and yields the id garbage.
RECURSIVE map_data_loop(_, _, _, _, _, _)
map_data_loop(fsockets, node_sockets, counter, acc, garbage, abort) ==
  IF fsockets = <<>> \/ acc.aborted THEN acc
  ELSE IF is_data_socket(Head(fsockets))
       THEN IF counter < Len(node_sockets)
            THEN map_data_loop(Tail(fsockets), node_sockets, counter + 1,
                   [acc EXCEPT !.map = map_sockets(@, Head(fsockets), node_sockets[counter + 1])],
                   garbage, abort)
            ELSE IF abort
                 THEN [acc EXCEPT !.oob = TRUE, !.aborted = TRUE]
                 ELSE map_data_loop(Tail(fsockets), node_sockets, counter + 1,
                        [acc EXCEPT !.oob = TRUE,
                                    !.map = map_sockets(@, Head(fsockets), garbage)],
                        garbage, abort)
       ELSE map_data_loop(Tail(fsockets), node_sockets, counter, acc, garbage, abort)

\* Faulty variant of map_data_sockets: the inputs loop indexes node.outputs().
map_data_sockets_wrong_list(fnode, node, map, garbage, abort) ==
  LET after_inputs == map_data_loop(fnode_inputs(fnode), node.outputs, 0,
                        [map |-> map, oob |-> FALSE, aborted |-> FALSE], garbage, abort)
  IN map_data_loop(fnode_outputs(fnode), node.outputs, 0, after_inputs, garbage, abort)

\* map_data_sockets(fnode, node): the inputs loop, then the outputs loop.
map_data_sockets(fnode, node, map, garbage, abort) ==
  LET after_inputs == map_data_loop(fnode_inputs(fnode), node.inputs, 0,
                        [map |-> map, oob |-> FALSE, aborted |-> FALSE], garbage, abort)
  IN map_data_loop(fnode_outputs(fnode), node.outputs, 0, after_inputs, garbage, abort)

\* What the id read through a pointer fetched past the end of a socket list
\* is: indeterminate, here an id that no socket of the network has.
GarbageIds(obj) == {IdMultiMap_UNMAPPED - 1}

\* The effect of a map_data_sockets call on the builder's members.
MapDataSocketsEffect(fnode, node, obj) ==
  \E abort \in BOOLEAN, garbage \in GarbageIds(obj) :
    LET r == map_data_sockets(fnode, node, m_socket_by_fsocket, garbage, abort)
    IN /\ m_socket_by_fsocket' = r.map
       /\ oob' = (oob \/ r.oob)
       /\ status' = IF r.aborted THEN "crashed" ELSE status

Call(op, fnode, node) == [op |-> op, fnode |-> fnode, node |-> node]

\* Dereferencing the moved-from (null) m_builder.
NullDeref(op, fnode) ==
  /\ status' = "crashed"
  /\ last_call' = Call(op, fnode, 0)
  /\ UNCHANGED <<m_builder, builder_obj, m_socket_by_fsocket, result,
                 mapped_calls, oob>>

\* add_function(function): no graph node.
add_function(function) ==
  /\ status = "ok" /\ n_ops < MaxOps
  /\ n_ops' = n_ops + 1
  /\ IF m_builder = NullPtr
     THEN NullDeref("add_function", 0)
     ELSE /\ builder_obj' = mf_add_function(builder_obj, function)
          /\ last_call' = Call("add_function", 0, Len(builder_obj.nodes) + 1)
          /\ UNCHANGED <<m_builder, m_socket_by_fsocket, result, status,
                         mapped_calls, oob>>
  /\ UNCHANGED <<m_preprocessed_function_tree_data, vec_vars, remesh>>

\* add_function(function, fnode): a new function node, mapped against fnode.
add_function_fnode(function, fnode) ==
  /\ status = "ok" /\ n_ops < MaxOps
  /\ n_ops' = n_ops + 1
  /\ IF m_builder = NullPtr
     THEN NullDeref("add_function_fnode", fnode)
     ELSE LET obj == mf_add_function(builder_obj, function)
              node == Len(obj.nodes)
          IN /\ builder_obj' = obj
             /\ MapDataSocketsEffect(fnode, obj.nodes[node], obj)
             /\ last_call' = Call("add_function_fnode", fnode, node)
             /\ mapped_calls' = mapped_calls \cup {Call("add_function_fnode", fnode, node)}
             /\ UNCHANGED <<m_builder, result>>
  /\ UNCHANGED <<m_preprocessed_function_tree_data, vec_vars, remesh>>

\* Faulty variant of dummy_types: every data socket gets the default type "float"
\* instead of its resolved type.
RECURSIVE dummy_types_default(_)
dummy_types_default(fsockets) ==
  IF fsockets = <<>> THEN <<>>
  ELSE IF try_get_data_type(Head(fsockets)) # NoType
       THEN <<"float">> \o dummy_types_default(Tail(fsockets))
       ELSE dummy_types_default(Tail(fsockets))

\* Faulty variant of dummy_names: the has_value() test is missing.
dummy_names_unfiltered(fsockets) ==
  [i \in 1..Len(fsockets) |-> fsocket_name(fsockets[i])]

\* The types (names) add_dummy collects from a socket list: one per socket
\* whose try_get_data_type has a value, in order.
RECURSIVE dummy_types(_)
dummy_types(fsockets) ==
  IF fsockets = <<>> THEN <<>>
  ELSE IF try_get_data_type(Head(fsockets)) # NoType
       THEN <<try_get_data_type(Head(fsockets))>> \o dummy_types(Tail(fsockets))
       ELSE dummy_types(Tail(fsockets))

RECURSIVE dummy_names(_)
dummy_names(fsockets) ==
  IF fsockets = <<>> THEN <<>>
  ELSE IF try_get_data_type(Head(fsockets)) # NoType
       THEN <<fsocket_name(Head(fsockets))>> \o dummy_names(Tail(fsockets))
       ELSE dummy_names(Tail(fsockets))

\* add_dummy(fnode).
add_dummy(fnode) ==
  /\ status = "ok" /\ n_ops < MaxOps
  /\ n_ops' = n_ops + 1
  /\ IF m_builder = NullPtr
     THEN NullDeref("add_dummy", fnode)
     ELSE LET obj == mf_add_dummy(builder_obj, fnode_name(fnode),
                                  dummy_types(fnode_inputs(fnode)),
                                  dummy_types(fnode_outputs(fnode)),
                                  dummy_names(fnode_inputs(fnode)),
                                  dummy_names(fnode_outputs(fnode)))
              node == Len(obj.nodes)
          IN /\ builder_obj' = obj
             /\ MapDataSocketsEffect(fnode, obj.nodes[node], obj)
             /\ last_call' = Call("add_dummy", fnode, node)
             /\ mapped_calls' = mapped_calls \cup {Call("add_dummy", fnode, node)}
             /\ UNCHANGED <<m_builder, result>>
  /\ UNCHANGED <<m_preprocessed_function_tree_data, vec_vars, remesh>>

\* FNodeMFNetworkBuilder::set_matching_fn(fn) of the node builder for fnode.
set_matching_fn(fn, fnode) ==
  /\ status = "ok" /\ n_ops < MaxOps
  /\ n_ops' = n_ops + 1
  /\ IF m_builder = NullPtr
     THEN NullDeref("set_matching_fn", fnode)
     ELSE LET obj == mf_add_function(builder_obj, fn)
              node == Len(obj.nodes)
          IN /\ builder_obj' = obj
             /\ MapDataSocketsEffect(fnode, obj.nodes[node], obj)
             /\ last_call' = Call("set_matching_fn", fnode, node)
             /\ mapped_calls' = mapped_calls \cup {Call("set_matching_fn", fnode, node)}
             /\ UNCHANGED <<m_builder, result>>
  /\ UNCHANGED <<m_preprocessed_function_tree_data, vec_vars, remesh>>

\* m_socket_by_fsocket after std::move took its storage.
MovedFrom == <<>>

\* map_data_sockets(fnode, node) called on a node added earlier.  It does not
\* touch m_builder.  After build() the map is moved-from: adding to it is a
\* write outside its (empty) storage, which aborts or lands nowhere visible.
map_data_sockets_call(fnode, node) ==
  /\ status = "ok" /\ n_ops < MaxOps
  /\ node \in 1..Len(builder_obj.nodes)
  /\ n_ops' = n_ops + 1
  /\ last_call' = Call("map_data_sockets", fnode, node)
  /\ IF m_socket_by_fsocket = MovedFrom
     THEN /\ \/ status' = status
             \/ /\ \E i \in 1..Len(fnode_inputs(fnode) \o fnode_outputs(fnode)) :
                     is_data_socket((fnode_inputs(fnode) \o fnode_outputs(fnode))[i])
                /\ status' = "crashed"
          /\ UNCHANGED <<m_socket_by_fsocket, mapped_calls, oob>>
     ELSE /\ MapDataSocketsEffect(fnode, builder_obj.nodes[node], builder_obj)
          /\ mapped_calls' = mapped_calls \cup {Call("map_data_sockets", fnode, node)}
  /\ UNCHANGED <<m_builder, builder_obj, result>>
  /\ UNCHANGED <<m_preprocessed_function_tree_data, vec_vars, remesh>>

\* Faulty variant of fill_mapped_ids: a slot already filled is kept.
RECURSIVE fill_mapped_ids_keeps_first(_, _, _)
fill_mapped_ids_keeps_first(table, fsocket_id, mapped_ids) ==
  IF mapped_ids = <<>> THEN table
  ELSE fill_mapped_ids_keeps_first(
         IF Head(mapped_ids) \in DOMAIN table.array
         THEN IF table.array[Head(mapped_ids)] = IdMultiMap_UNMAPPED
              THEN [table EXCEPT !.array[Head(mapped_ids)] = fsocket_id]
              ELSE table
         ELSE [table EXCEPT !.oob = TRUE],
         fsocket_id, Tail(mapped_ids))

\* The loops of build() that fill fsocket_by_socket: fsocket ids ascending,
\* each one's mapped ids in order, each write replacing what the slot held.
\* A mapped id outside the array is a write past its end: it lands outside
\* the table (the table keeps its contents) and is reported in oob.
RECURSIVE fill_mapped_ids(_, _, _)
fill_mapped_ids(table, fsocket_id, mapped_ids) ==
  IF mapped_ids = <<>> THEN table
  ELSE fill_mapped_ids(
         IF Head(mapped_ids) \in DOMAIN table.array
         THEN [table EXCEPT !.array[Head(mapped_ids)] = fsocket_id]
         ELSE [table EXCEPT !.oob = TRUE],
         fsocket_id, Tail(mapped_ids))

RECURSIVE fill_fsocket_by_socket(_, _, _)
fill_fsocket_by_socket(table, fsocket_id, map) ==
  IF fsocket_id >= socket_count THEN table
  ELSE fill_fsocket_by_socket(fill_mapped_ids(table, fsocket_id, map[fsocket_id]),
                              fsocket_id + 1, map)

\* Faulty variant of fsocket_by_socket: the scan starts at fsocket id 1.
fsocket_by_socket_from_one(n, map) ==
  fill_fsocket_by_socket(
    [array |-> [s \in 0..(n - 1) |-> IdMultiMap_UNMAPPED], oob |-> FALSE], 1, map)

\* fsocket_by_socket as build() computes it for a network with n socket ids.
fsocket_by_socket(n, map) ==
  fill_fsocket_by_socket(
    [array |-> [s \in 0..(n - 1) |-> IdMultiMap_UNMAPPED], oob |-> FALSE], 0, map)

\* Faulty variant of build: the builder keeps its pointer and its map (a copy is
\* handed out instead of a move).
build_keeps_builder ==
  /\ status = "ok"
  /\ last_call' = Call("build", 0, 0)
  /\ IF m_builder = NullPtr \/ Built
     THEN /\ status' = "crashed"
          /\ UNCHANGED <<m_builder, m_socket_by_fsocket, result>>
     ELSE LET table == fsocket_by_socket(Len(builder_obj.sockets), m_socket_by_fsocket)
          IN /\ m_builder' = m_builder
             /\ m_socket_by_fsocket' = m_socket_by_fsocket
             /\ status' = status
             /\ result' = [network |-> BuilderAddr,
                           socket_by_fsocket |-> m_socket_by_fsocket,
                           fsocket_by_socket |-> table.array]
  /\ UNCHANGED <<builder_obj, n_ops, mapped_calls, oob>>
  /\ UNCHANGED <<m_preprocessed_function_tree_data, vec_vars, remesh>>

\* build().
build ==
  /\ status = "ok"
  /\ last_call' = Call("build", 0, 0)
  /\ IF m_builder = NullPtr
     THEN /\ status' = "crashed"
          /\ UNCHANGED <<m_builder, m_socket_by_fsocket, result>>
     ELSE LET table == fsocket_by_socket(Len(builder_obj.sockets), m_socket_by_fsocket)
          IN /\ m_builder' = NullPtr
             /\ m_socket_by_fsocket' = MovedFrom
             /\ \/ /\ status' = status
                   /\ result' = [network |-> BuilderAddr,
                                 socket_by_fsocket |-> m_socket_by_fsocket,
                                 fsocket_by_socket |-> table.array]
                \/ /\ table.oob
                   /\ status' = "crashed"
                   /\ result' = result
  /\ UNCHANGED <<builder_obj, n_ops, mapped_calls, oob>>
  /\ UNCHANGED <<m_preprocessed_function_tree_data, vec_vars, remesh>>

-----------------------------------------------------------------------------
(* FNodeMFNetworkBuilder::get_vectorized_function                          *)

\* The per-input properties of the node that say "BASE" or "LIST".
PropNames == {"use_list__a", "use_list__b"}

\* A function reference: the function, and where resources holds it (0 for a
\* function the caller owns).
FnRef(fn, resource) == [fn |-> fn, resource |-> resource]

BaseFunctions == {FnRef(f.ref, 0) : f \in MultiFunctions}

NoReturn == FnRef("none", 0)

NoArgs == [called |-> FALSE, base_function |-> NoReturn, prop_names |-> <<>>,
           n_resources |-> 0]

STREQ(a, b) == a = b

\* The loop of lines 185-192: one flag per property name, in order.
input_is_vectorized(is_vectorized_prop_names) ==
  [i \in 1..Len(is_vectorized_prop_names) |->
     STREQ(rna[is_vectorized_prop_names[i]], "LIST")]

\* Faulty variant of get_vectorized_function: the wrapper is built whenever property
\* names are given, whatever they read.
get_vectorized_function_always_wraps(base_function, is_vectorized_prop_names) ==
  /\ Len(resources) < MaxResources
  /\ vec_args' = [called |-> TRUE, base_function |-> base_function,
                  prop_names |-> is_vectorized_prop_names,
                  n_resources |-> Len(resources)]
  /\ IF is_vectorized_prop_names # <<>>
     THEN /\ resources' = Append(resources,
                            [fn |-> "MF_SimpleVectorize", base |-> base_function,
                             input_is_vectorized |->
                               input_is_vectorized(is_vectorized_prop_names)])
          /\ returned_fn' = FnRef("MF_SimpleVectorize", Len(resources) + 1)
     ELSE /\ returned_fn' = base_function
          /\ UNCHANGED resources
  /\ UNCHANGED <<rna, builder_vars, remesh>>

\* get_vectorized_function(base_function, is_vectorized_prop_names).
get_vectorized_function(base_function, is_vectorized_prop_names) ==
  /\ Len(resources) < MaxResources
  /\ vec_args' = [called |-> TRUE, base_function |-> base_function,
                  prop_names |-> is_vectorized_prop_names,
                  n_resources |-> Len(resources)]
  /\ IF TRUE \in Range(input_is_vectorized(is_vectorized_prop_names))
     THEN /\ resources' = Append(resources,
                            [fn |-> "MF_SimpleVectorize", base |-> base_function,
                             input_is_vectorized |->
                               input_is_vectorized(is_vectorized_prop_names)])
          /\ returned_fn' = FnRef("MF_SimpleVectorize", Len(resources) + 1)
     ELSE /\ returned_fn' = base_function
          /\ UNCHANGED resources
  /\ UNCHANGED <<rna, builder_vars, remesh>>

\* The lists of property names of length at most MaxPropNames.
PropNameLists == UNION {[1..n -> PropNames] : n \in 0..MaxPropNames}

-----------------------------------------------------------------------------
(* object_remesh.c: the remesh operators.  remesh holds the context the   *)
(* operator runs in (the active object and its mesh) and what the runs did. *)

RemeshContexts ==
  [mode : {"OB_MODE_OBJECT", "OB_MODE_EDIT", "OB_MODE_SCULPT"},
   dyntopo : BOOLEAN,            \* ob->sculpt->bm is set
   editable_mesh : BOOLEAN,      \* ED_operator_object_active_editable_mesh(C)
   remesh_voxel_size : {0, 1},   \* mesh->remesh_voxel_size: 0.0 or positive
   reproject_paint_mask : BOOLEAN,  \* mesh->flag & ME_REMESH_REPROJECT_PAINT_MASK
   smooth_normals : BOOLEAN]        \* mesh->flag & ME_REMESH_SMOOTH_NORMALS

\* ob->sculpt exists in sculpt mode only.
ValidRemeshContext(c) == c.dyntopo => c.mode = "OB_MODE_SCULPT"

StartRemesh(c) ==
  [pc |-> "ready", ctx |-> c, runs |-> 0, op |-> "none", retval |-> "none",
   poll_msg |-> "none", undo |-> <<>>, meshes |-> 0, reports |-> <<>>,
   mask_reprojected |-> FALSE, smooth |-> FALSE, tagged |-> FALSE]

\* object_remesh_poll: what it returns, and the message it leaves.
object_remesh_poll(c) ==
  IF c.mode = "OB_MODE_EDIT"
  THEN [ok |-> FALSE, msg |-> "The voxel remesher cannot run from edit mode."]
  ELSE [ok |-> c.editable_mesh,
        msg |-> IF c.mode = "OB_MODE_SCULPT" /\ c.dyntopo
                THEN "The voxel remesher cannot run with dyntopo activated."
                ELSE "none"]

\* The tail both exec functions share once the remesher returned a mesh:
\* reproject the paint mask, replace the mesh, smooth, end the sculpt undo
\* step, tag the updates.
FinishRemesh(r, proj_paint_mask, smooth_normals) ==
  [r EXCEPT !.meshes = @ + 1,
            !.mask_reprojected = proj_paint_mask,
            !.smooth = smooth_normals,
            !.undo = IF r.ctx.mode = "OB_MODE_SCULPT"
                     THEN Append(@, "geometry_end") ELSE @,
            !.tagged = TRUE,
            !.retval = "OPERATOR_FINISHED"]

\* ED_sculpt_undo_geometry_begin(ob) when the object is in sculpt mode.
UndoBegin(r) ==
  [r EXCEPT !.undo = IF r.ctx.mode = "OB_MODE_SCULPT"
                     THEN Append(@, "geometry_begin") ELSE @]

\* The operator was polled and refused.
poll_rejected ==
  /\ remesh.pc = "ready" /\ remesh.runs < MaxRuns
  /\ ~object_remesh_poll(remesh.ctx).ok
  /\ remesh' = [remesh EXCEPT !.runs = @ + 1, !.op = "none", !.retval = "none",
                              !.poll_msg = object_remesh_poll(remesh.ctx).msg]
  /\ UNCHANGED <<builder_vars, vec_vars>>

\* voxel_remesh_exec; new_mesh says whether the remesher returned a mesh.
voxel_remesh_exec(new_mesh) ==
  /\ remesh.pc = "ready" /\ remesh.runs < MaxRuns
  /\ object_remesh_poll(remesh.ctx).ok
  /\ LET r0 == [remesh EXCEPT !.runs = @ + 1, !.op = "voxel",
                              !.poll_msg = object_remesh_poll(remesh.ctx).msg]
     IN remesh' =
          IF r0.ctx.remesh_voxel_size <= 0
          THEN [r0 EXCEPT !.reports = Append(@, "RPT_ERROR"),
                          !.retval = "OPERATOR_CANCELLED"]
          ELSE IF ~new_mesh
               THEN [UndoBegin(r0) EXCEPT !.retval = "OPERATOR_CANCELLED"]
               ELSE FinishRemesh(UndoBegin(r0), r0.ctx.reproject_paint_mask,
                                 r0.ctx.smooth_normals)
  /\ UNCHANGED <<builder_vars, vec_vars>>

\* quadriflow_remesh_exec with the operator's properties.
quadriflow_remesh_exec(use_freeze, new_mesh, proj_paint_mask, smooth_normals) ==
  /\ remesh.pc = "ready" /\ remesh.runs < MaxRuns
  /\ object_remesh_poll(remesh.ctx).ok
  /\ LET r0 == [remesh EXCEPT !.runs = @ + 1, !.op = "quadriflow",
                              !.poll_msg = object_remesh_poll(remesh.ctx).msg]
     IN remesh' =
          IF use_freeze
          THEN [r0 EXCEPT !.reports = Append(@, "RPT_INFO"),
                          !.retval = "OPERATOR_FINISHED"]
          ELSE IF ~new_mesh
               THEN [UndoBegin(r0) EXCEPT !.retval = "OPERATOR_CANCELLED"]
               ELSE FinishRemesh(UndoBegin(r0), proj_paint_mask, smooth_normals)
  /\ UNCHANGED <<builder_vars, vec_vars>>

-----------------------------------------------------------------------------
(* Initial states and specifications *)

BuilderInit ==
  /\ m_preprocessed_function_tree_data \in FunctionTreeData
  /\ m_builder = BuilderAddr
  /\ builder_obj = EmptyBuilder
  /\ m_socket_by_fsocket = [f \in FSocketIds |-> <<>>]
  /\ result = NoResult
  /\ status = "ok"
  /\ n_ops = 0
  /\ mapped_calls = {}
  /\ last_call = Call("constructor", 0, 0)
  /\ oob = FALSE

\* The builder part of a specification that leaves the builder alone.
BuilderIdle ==
  /\ BuilderInit
  /\ \A f \in FSocketIds : f \in {1, 5} => ~is_data_socket(f)

VecIdle ==
  /\ rna = [p \in {} |-> "BASE"]
  /\ resources = <<>>
  /\ returned_fn = NoReturn
  /\ vec_args = NoArgs

RemeshIdle == remesh = [pc |-> "idle"]

VecInit ==
  /\ rna \in [PropNames -> {"BASE", "LIST"}]
  /\ resources = <<>>
  /\ returned_fn = NoReturn
  /\ vec_args = NoArgs

NextVec ==
  \E base_function \in BaseFunctions, names \in PropNameLists :
    get_vectorized_function(base_function, names)

RemeshInit ==
  \E c \in RemeshContexts : ValidRemeshContext(c) /\ remesh = StartRemesh(c)

NextRemesh ==
  \/ poll_rejected
  \/ \E new_mesh \in BOOLEAN : voxel_remesh_exec(new_mesh)
  \/ \E use_freeze, new_mesh, proj_paint_mask, smooth_normals \in BOOLEAN :
       quadriflow_remesh_exec(use_freeze, new_mesh, proj_paint_mask, smooth_normals)

Next ==
  \/ \E function \in MultiFunctions : add_function(function)
  \/ \E function \in MultiFunctions, fnode \in FNodes : add_function_fnode(function, fnode)
  \/ \E fnode \in FNodes : add_dummy(fnode)
  \/ \E fn \in MultiFunctions, fnode \in FNodes : set_matching_fn(fn, fnode)
  \/ \E fnode \in FNodes, node \in 1..MaxOps : map_data_sockets_call(fnode, node)
  \/ build

\* The network builder.
Init == BuilderInit /\ VecIdle /\ RemeshIdle

Spec == Init /\ [][Next]_vars

\* get_vectorized_function.
InitVec == BuilderIdle /\ VecInit /\ RemeshIdle

SpecVec == InitVec /\ [][NextVec]_vars

\* The remesh operators.
InitRemesh == BuilderIdle /\ VecIdle /\ RemeshInit

SpecRemesh == InitRemesh /\ [][NextRemesh]_vars

-----------------------------------------------------------------------------
(* Vocabulary of the properties *)

\* The data sockets among fsockets, in order.
DataSockets(fsockets) == SelectSeq(fsockets, is_data_socket)

\* The forward Socket Map: the builder's before build(), the result's after.
ForwardMap == IF result # NoResult THEN result.socket_by_fsocket ELSE m_socket_by_fsocket

\* What a step appended to the map entry of fsocket.
Appended(fsocket) ==
  SubSeq(m_socket_by_fsocket'[fsocket], Len(m_socket_by_fsocket[fsocket]) + 1,
         Len(m_socket_by_fsocket'[fsocket]))

\* A step that created a network node and mapped it against a graph node,
\* and returned.
NewNodeMappingStep ==
  /\ n_ops' = n_ops + 1
  /\ status' = "ok"
  /\ last_call'.op \in {"add_function_fnode", "add_dummy", "set_matching_fn"}

\* The k-th data socket of fsockets got exactly the k-th socket of
\* node_sockets appended, for every k both lists have.
AlignedAppend(fsockets, node_sockets) ==
  \A k \in 1..Min(Len(DataSockets(fsockets)), Len(node_sockets)) :
    Appended(DataSockets(fsockets)[k]) = <<node_sockets[k]>>

\* C1: a call that maps a newly created network node against a graph node
\* records, for the k-th data input (output) of the graph node, the k-th input
\* (output) of the network node and no other socket of it.
C1_PositionalAlignment ==
  [][NewNodeMappingStep =>
       LET node == builder_obj'.nodes[last_call'.node]
       IN /\ AlignedAppend(fnode_inputs(last_call'.fnode), node.inputs)
          /\ AlignedAppend(fnode_outputs(last_call'.fnode), node.outputs)]_vars

\* C1 witness: N1 with b a control socket was mapped against a new node with
\* two inputs: a -> input 1, c -> input 2 (the code's input[0], input[1]).
C1_Witness ==
  /\ status = "ok" /\ result = NoResult
  /\ last_call.op = "add_function_fnode" /\ last_call.fnode = 1
  /\ ~is_data_socket(1)
  /\ LET node == builder_obj.nodes[last_call.node]
     IN /\ Len(node.inputs) = 2
        /\ node.inputs[1] \in Range(m_socket_by_fsocket[0])
        /\ node.inputs[2] \in Range(m_socket_by_fsocket[2])
        /\ node.inputs[2] \notin Range(m_socket_by_fsocket[0])

\* Every pair (graph socket, network socket) of the forward map joins
\* sockets of one data type.
TypeEquality ==
  \A f \in DOMAIN ForwardMap : \A s \in Range(ForwardMap[f]) \cap SocketIds(builder_obj) :
    try_get_data_type(f) = SocketById(builder_obj, s).data_type

\* Every id in the forward map is the id of a network socket.
MappedIdsAreSockets ==
  \A f \in DOMAIN ForwardMap : Range(ForwardMap[f]) \subseteq SocketIds(builder_obj)

\* The types of the sockets ids, in order.
SocketTypes(ids) == [i \in 1..Len(ids) |-> SocketById(builder_obj, ids[i]).data_type]

FSocketTypes(fsockets) ==
  [i \in 1..Len(DataSockets(fsockets)) |-> try_get_data_type(DataSockets(fsockets)[i])]

IsPrefix(s, t) == Len(s) <= Len(t) /\ SubSeq(t, 1, Len(s)) = s

\* The network node of call has, position by position, the types of the
\* graph node's data sockets.
SignatureMatches(call) ==
  LET node == builder_obj.nodes[call.node]
  IN /\ IsPrefix(FSocketTypes(fnode_inputs(call.fnode)), SocketTypes(node.inputs))
     /\ IsPrefix(FSocketTypes(fnode_outputs(call.fnode)), SocketTypes(node.outputs))

MappedFrom(s) == {f \in DOMAIN ForwardMap : s \in Range(ForwardMap[f])}

SetMin(S) == CHOOSE x \in S : \A y \in S : x <= y

SetMax(S) == CHOOSE x \in S : \A y \in S : x >= y

\* C3 as stated: the reverse entry of a network socket is the first graph
\* socket id, in ascending order, that maps to it.
C3_ReverseIsFirstMatch ==
  Built => \A s \in DOMAIN result.fsocket_by_socket :
             MappedFrom(s) # {} => result.fsocket_by_socket[s] = SetMin(MappedFrom(s))

\* C3 amended: build() records one reverse entry per network socket id, and
\* when several graph socket ids map to the same network socket the recorded
\* one is the last match of the ascending scan (the greatest such id): each
\* later match replaces the earlier one.
C3_ReverseIsLastMatch ==
  Built => /\ DOMAIN result.fsocket_by_socket = SocketIds(builder_obj)
           /\ \A s \in DOMAIN result.fsocket_by_socket :
                MappedFrom(s) # {} => result.fsocket_by_socket[s] = SetMax(MappedFrom(s))

\* C3 witness: a built network in which two graph sockets map to one socket.
C3_Witness ==
  /\ Built /\ status = "ok" /\ ~oob
  /\ \E s \in DOMAIN result.fsocket_by_socket : Cardinality(MappedFrom(s)) >= 2

\* C4: after build() the reverse table has one entry per network socket id;
\* the entry is the unmapped sentinel exactly when no graph socket maps to
\* the socket, otherwise a graph socket that maps to it; a socket mapped from
\* one graph socket only resolves back to that graph socket.
C4_ForwardReverseConsistent ==
  Built =>
    /\ DOMAIN result.fsocket_by_socket = SocketIds(builder_obj)
    /\ \A s \in SocketIds(builder_obj) :
         /\ (result.fsocket_by_socket[s] = IdMultiMap_UNMAPPED) <=> (MappedFrom(s) = {})
         /\ result.fsocket_by_socket[s] # IdMultiMap_UNMAPPED
              => result.fsocket_by_socket[s] \in MappedFrom(s)
         /\ \A f \in MappedFrom(s) :
              MappedFrom(s) = {f} => result.fsocket_by_socket[s] = f

\* C4 witness: N1.x -> s1 and N2.y -> s2 forward, s1 -> N1.x and s2 -> N2.y
\* in reverse, and a socket nothing maps to marked unmapped.
C4_Witness ==
  /\ Built /\ status = "ok"
  /\ \E s1, s2 \in SocketIds(builder_obj) :
       /\ s1 # s2
       /\ ForwardMap[4] = <<s1>> /\ ForwardMap[5] = <<s2>>
       /\ result.fsocket_by_socket[s1] = 4 /\ result.fsocket_by_socket[s2] = 5
  /\ \E s \in SocketIds(builder_obj) : result.fsocket_by_socket[s] = IdMultiMap_UNMAPPED

\* C5: get_vectorized_function returns the base function reference itself,
\* and constructs nothing, when no named property reads "LIST" (the empty
\* list included); it returns a newly constructed vectorizing wrapper of the
\* base function, with one flag per property in the given order, exactly
\* when some named property reads "LIST".
C5_VectorizedIffSomeList ==
  vec_args.called =>
    LET names == vec_args.prop_names
        some_list == \E i \in 1..Len(names) : rna[names[i]] = "LIST"
    IN /\ ~some_list => /\ returned_fn = vec_args.base_function
                        /\ Len(resources) = vec_args.n_resources
       /\ some_list <=> returned_fn.resource # 0
       /\ some_list =>
            /\ Len(resources) = vec_args.n_resources + 1
            /\ returned_fn = FnRef("MF_SimpleVectorize", Len(resources))
            /\ returned_fn \notin BaseFunctions
            /\ resources[Len(resources)].base = vec_args.base_function
            /\ Len(resources[Len(resources)].input_is_vectorized) = Len(names)
            /\ \A i \in 1..Len(names) :
                 resources[Len(resources)].input_is_vectorized[i]
                   = (rna[names[i]] = "LIST")

\* C5 witness: one call with a "BASE" and a "LIST" property returned a
\* wrapper with flags <<FALSE, TRUE>> after a call without "LIST" returned
\* the base function.
C5_Witness ==
  /\ vec_args.called
  /\ Len(vec_args.prop_names) = 2
  /\ rna[vec_args.prop_names[1]] = "BASE" /\ rna[vec_args.prop_names[2]] = "LIST"
  /\ returned_fn.resource = 1
  /\ resources[1].input_is_vectorized = <<FALSE, TRUE>>

\* The names of the sockets ids, in order.
SocketNames(ids) == [i \in 1..Len(ids) |-> SocketById(builder_obj, ids[i]).name]

FSocketNames(fsockets) ==
  [i \in 1..Len(DataSockets(fsockets)) |-> fsocket_name(DataSockets(fsockets)[i])]

HasNoDataSockets(fnode) ==
  DataSockets(fnode_inputs(fnode)) = <<>> /\ DataSockets(fnode_outputs(fnode)) = <<>>

\* The node a call of add_dummy made lists exactly the graph node's data
\* sockets: same number, order, names and types, inputs and outputs.
DummyNodeExact(call) ==
  LET node == builder_obj.nodes[call.node]
  IN /\ node.kind = "dummy"
     /\ SocketTypes(node.inputs) = FSocketTypes(fnode_inputs(call.fnode))
     /\ SocketNames(node.inputs) = FSocketNames(fnode_inputs(call.fnode))
     /\ SocketTypes(node.outputs) = FSocketTypes(fnode_outputs(call.fnode))
     /\ SocketNames(node.outputs) = FSocketNames(fnode_outputs(call.fnode))
     /\ \A i \in 1..Len(node.inputs) : SocketById(builder_obj, node.inputs[i]).is_input
     /\ \A i \in 1..Len(node.outputs) : ~SocketById(builder_obj, node.outputs[i]).is_input

\* C6: add_dummy(graph_node) makes a dummy node whose inputs (outputs) are
\* exactly the graph node's data inputs (outputs), in order, with their names
\* and resolved types; for a graph node without data sockets both lists are
\* empty and the Socket Map is left as it was, and a build() that follows
\* returns a network.
C6_DummyListsDataSockets ==
  /\ [](\A call \in mapped_calls : call.op = "add_dummy" => DummyNodeExact(call))
  /\ [][(/\ n_ops' = n_ops + 1
         /\ last_call'.op = "add_dummy" /\ last_call'.node # 0
         /\ HasNoDataSockets(last_call'.fnode))
        => /\ builder_obj'.nodes[last_call'.node].inputs = <<>>
           /\ builder_obj'.nodes[last_call'.node].outputs = <<>>
           /\ Len(builder_obj'.sockets) = Len(builder_obj.sockets)
           /\ m_socket_by_fsocket' = m_socket_by_fsocket
           /\ status' = "ok"]_vars
  /\ [][(/\ last_call.op = "add_dummy" /\ HasNoDataSockets(last_call.fnode)
         /\ status = "ok" /\ ~oob
         /\ last_call'.op = "build")
        => status' = "ok" /\ Built']_vars

\* C6 witness: build() returned after a dummy node for N2 without data
\* sockets and a dummy node for N1 with its data sockets a, c and x.
C6_Witness ==
  /\ Built /\ status = "ok"
  /\ \E c1, c2 \in mapped_calls :
       /\ c1.op = "add_dummy" /\ c1.fnode = 1
       /\ SocketNames(builder_obj.nodes[c1.node].inputs) = <<"a", "c">>
       /\ SocketNames(builder_obj.nodes[c1.node].outputs) = <<"x">>
       /\ c2.op = "add_dummy" /\ HasNoDataSockets(c2.fnode)
       /\ builder_obj.nodes[c2.node].inputs = <<>>
  /\ \A f \in {5, 6} : ForwardMap[f] = <<>>

\* C7: build() hands the node/socket structure and the forward map to the
\* result and keeps neither; from then on no builder call changes the
\* result, its nodes and sockets or its maps.
C7_OwnershipTransfer ==
  /\ [](Built => /\ m_builder = NullPtr
                 /\ m_socket_by_fsocket = MovedFrom
                 /\ result.network = BuilderAddr)
  /\ [][(~Built /\ Built') => result'.socket_by_fsocket = m_socket_by_fsocket]_vars
  /\ [][Built => (result' = result /\ builder_obj' = builder_obj)]_vars

\* C7 witness: a builder call was made after build() had returned.
C7_Witness ==
  /\ Built
  /\ Len(builder_obj.nodes) >= 1
  /\ last_call.op \in {"add_function", "add_function_fnode", "add_dummy",
                       "set_matching_fn", "map_data_sockets"}

\* C8: before build() a builder call only appends to the entries of the
\* Socket Map, so a graph node mapped against two network nodes keeps the
\* sockets of both; add_function(fn) without a graph node leaves the map
\* unchanged.
C8_AppendOnly ==
  /\ [][(m_socket_by_fsocket # MovedFrom /\ last_call'.op # "build")
        => \A f \in FSocketIds : IsPrefix(m_socket_by_fsocket[f], m_socket_by_fsocket'[f])]_vars
  /\ [][(n_ops' = n_ops + 1 /\ last_call'.op = "add_function")
        => m_socket_by_fsocket' = m_socket_by_fsocket]_vars

\* C8 witness: N1 was mapped against two network nodes and its data input a
\* maps to an input of each.
C8_Witness ==
  /\ ~Built /\ status = "ok" /\ ~oob
  /\ Len(builder_obj.nodes) = 2
  /\ Len(m_socket_by_fsocket[0]) = 2
  /\ SocketById(builder_obj, m_socket_by_fsocket[0][1]).node = 1
  /\ SocketById(builder_obj, m_socket_by_fsocket[0][2]).node = 2

\* The calls of ED_sculpt_undo_geometry_begin / _end made so far.
UndoCalls(what) == Cardinality({i \in 1..Len(remesh.undo) : remesh.undo[i] = what})

\* C9: whenever voxel_remesh_exec or quadriflow_remesh_exec has returned,
\* every ED_sculpt_undo_geometry_begin it called has been followed by its
\* ED_sculpt_undo_geometry_end.
C9_UndoBracketed ==
  remesh.pc = "ready" => UndoCalls("geometry_begin") = UndoCalls("geometry_end")

\* The graph node of call has more data inputs (outputs) than the network
\* node has inputs (outputs).
TooFewSockets(call) ==
  LET node == builder_obj.nodes[call.node]
  IN \/ Len(DataSockets(fnode_inputs(call.fnode))) > Len(node.inputs)
     \/ Len(DataSockets(fnode_outputs(call.fnode))) > Len(node.outputs)

\* C10 as stated: map_data_sockets never indexes a socket list past its end.
C10_NeverOutOfBounds == ~oob

\* C10 amended: map_data_sockets stays inside the socket lists exactly when
\* the network node has at least as many inputs and outputs as the graph node
\* has data inputs and outputs; that is so for every add_dummy call, and for
\* add_function(fn, graph_node), set_matching_fn and map_data_sockets only
\* when the function's signature is that large.
C10_InBoundsIffEnoughSockets ==
  /\ oob <=> (\E call \in mapped_calls : TooFewSockets(call))
  /\ \A call \in mapped_calls : call.op = "add_dummy" => ~TooFewSockets(call)

\* C10 witness: function nodes and a dummy node were mapped in bounds.
C10_Witness ==
  /\ ~oob /\ status = "ok"
  /\ \E c1, c2 \in mapped_calls :
       /\ c1.op = "set_matching_fn" /\ c1.fnode = 1
       /\ Len(builder_obj.nodes[c1.node].inputs) = Len(DataSockets(fnode_inputs(1)))
       /\ c2.op = "add_dummy" /\ c2.fnode = 1

\* The active object is in sculpt mode with dynamic topology active
\* (ob->sculpt->bm is set).
DyntopoActive(c) == c.mode = "OB_MODE_SCULPT" /\ c.dyntopo

\* C11: with dyntopo activated on the active object, object_remesh_poll
\* returns false, so neither voxel_remesh_exec nor quadriflow_remesh_exec
\* has run.
C11_NoRemeshWithDyntopo ==
  (remesh.pc = "ready" /\ DyntopoActive(remesh.ctx)) =>
    /\ ~object_remesh_poll(remesh.ctx).ok
    /\ remesh.op \notin {"voxel", "quadriflow"}

=============================================================================
